---- MODULE Spec2Model ----
(***************************************************************************)
(* Login throttling (src/core/database.py, DatabaseCommands) and the       *)
(* persistent-login session protocol (src/flaskapp/database/models/user.py,*)
(* PersistentLogin) of the FlaskWebsite repository, as a state machine.    *)
(*                                                                         *)
(* Two specifications share the variables:                                 *)
(*   Spec         the clock and the DatabaseCommands calls                 *)
(*   SessionSpec  issuing, validating and rotating PersistentLogin rows,   *)
(*                and password changes of User rows                        *)
(* CredentialSpec adds the logins without ip or login field to Spec, and   *)
(* ConcurrentSpec runs login calls interleaved statement by statement.     *)
(***************************************************************************)
EXTENDS Integers, Sequences, FiniteSets

VARIABLES
    now,             \* UNIX_TIMESTAMP(NOW()) of the database server
    login_attempts,  \* table login_attempts, in insertion order
    ip_addresses,    \* table ip_addresses: ip id -> [ban_until, ban_count]
    accounts,        \* table accounts: id -> [username, password, ban_until, ban_count]
    users,           \* table User: row_id -> [password, email]
    sessions,        \* table PersistentLogin: set of [user_id, identifier, token]
    fresh,           \* number of random values drawn so far (uuid4, salts)
    last,            \* the call made by the last step, with what it returned
    calls            \* the concurrent login calls: where each is, and its locals

vars ==
    <<now, login_attempts, ip_addresses, accounts, users, sessions, fresh, last, calls>>

throttle_vars == <<now, login_attempts, ip_addresses, accounts>>
session_vars == <<users, sessions, fresh>>

-----------------------------------------------------------------------------
(* Bounds of the model.                                                    *)

\* The clock starts here: a UNIX timestamp is far larger than any ban time,
\* so now - BAN_TIME_* is positive, as it is on a real server.
Epoch == 10
\* The clock advances at most this many seconds.
MaxTicks == 3
\* At most this many rows are inserted into login_attempts.
MaxLog == 4
\* At most this many random values (tokens, seeds, salts) are drawn.
MaxFresh == 6
\* At most this many PersistentLogin rows exist at a time.
MaxSessions == 2
\* This many login calls run concurrently.
MaxCalls == 3

-----------------------------------------------------------------------------
(* core.constants, imported at src/core/database.py:4.  The file is not    *)
(* part of the sources; the spec names the constants and says they are     *)
(* tunable.  The values here are scaled down so that a ban window fits     *)
(* into MaxTicks seconds and a threshold into MaxLog rows.                 *)

MAX_LOGIN_ATTEMPTS_IP == 3
BAN_TIME_IP == 2
MAX_LOGIN_ATTEMPTS_ACCOUNT == 2
BAN_TIME_ACCOUNT == 3

\* src/core/database.py:207 and :214, "remaining_attempts <= 10"
WARNING_THRESHOLD == 10

-----------------------------------------------------------------------------
(* Values.                                                                 *)

\* Python's None, for the optional ip_id and form_data of login.
None == "None"

Ips == {"ip1", "ip2"}
\* Raw login fields: "alice" is the login name of account 1, "nosuch"
\* belongs to no account.
Fields == {"alice", "nosuch"}
\* Plain passwords a client may type; "secret" is the password of account 1.
Passwords == {"secret", "wrong"}
\* Ids of the rows of table accounts; 0 (or None) is "no account".
AccountIds == {1}
\* Ids of the rows of table User, and their email addresses.
UserIds == {1, 2}
Emails == [u \in UserIds |-> IF u = 1 THEN "alice@example.org" ELSE "bob@example.org"]

Greatest(a, b) == IF a >= b THEN a ELSE b

\* core.hash.quick_hash: a fast hash, one 32-character block.  Distinct
\* inputs of the model get distinct hashes; the hash is never its input.
quick_hash(x) == <<"qh", x>>

\* core.hash.password_hash / password_check: a one-way hash and its check.
\* password_hash stores a salted hash (the column is CHAR(60)): hashing the
\* same plain text again gives another value.
password_hash(plain, salt) == <<"pwhash", salt, plain>>
password_check(plain, hashed) == hashed[3] = plain

\* common.generate_uuid and the argument-less quick_hash(): random values,
\* the n-th one drawn.
generate_uuid(n) == <<"uuid", n>>
random_hash(n) == <<"qh", <<"random", n>>>>

-----------------------------------------------------------------------------
(* DatabaseCommands (src/core/database.py).  Each method is an operator    *)
(* over the tables it reads; where it writes, it returns the new table     *)
(* beside its return value.  t is UNIX_TIMESTAMP(NOW()).                    *)

\* get_account_id(username=...): SELECT id FROM accounts WHERE username = %s,
\* 0 when there is no such row (IndexError).
get_account_id(accts, username) ==
    LET S == {a \in DOMAIN accts : accts[a].username = username}
    IN  IF S = {} THEN 0 ELSE CHOOSE a \in S : TRUE

\* Mutant: a successful attempt clears the field's earlier rows.
login_attempt_record_reset(log, field_data, ip_id, success, t) ==
    LET keep(row) == success # 1 \/ row.field_data # quick_hash(field_data)
    IN  Append(SelectSeq(log, keep),
               [field_data |-> quick_hash(field_data), ip_id |-> ip_id,
                attempt_time |-> t, success |-> success])

\* The row login_attempt_record inserts.
login_attempt_record(log, field_data, ip_id, success, t) ==
    Append(log, [field_data |-> quick_hash(field_data), ip_id |-> ip_id,
                 attempt_time |-> t, success |-> success])

\* SELECT count(*) FROM login_attempts WHERE success >= 0
\*   AND attempt_time > UNIX_TIMESTAMP(NOW()) - BAN_TIME_IP AND ip_id = ip_id
ip_login_attempts(log, ip_id, t) ==
    Cardinality({i \in DOMAIN log : /\ log[i].success >= 0
                                    /\ log[i].attempt_time > t - BAN_TIME_IP
                                    /\ log[i].ip_id = ip_id})

\* UPDATE ip_addresses SET ban_until = NOW + length, ban_count = ban_count + 1
ban_ip(ips, ip_id, length, t) ==
    [i \in DOMAIN ips |->
        IF i = ip_id
        THEN [ban_until |-> t + length, ban_count |-> ips[i].ban_count + 1]
        ELSE ips[i]]

\* Mutant: the ban is issued while one attempt still remains.
failed_logins_ip_early(log, ips, ip_id, t) ==
    LET remaining_attempts == MAX_LOGIN_ATTEMPTS_IP - ip_login_attempts(log, ip_id, t)
    IN  [ip_addresses |-> IF remaining_attempts <= 1
                          THEN ban_ip(ips, ip_id, BAN_TIME_IP, t)
                          ELSE ips,
         remaining_attempts |-> remaining_attempts]

\* Mutant: the ban is issued only once the remaining attempts are negative.
failed_logins_ip_late(log, ips, ip_id, t) ==
    LET remaining_attempts == MAX_LOGIN_ATTEMPTS_IP - ip_login_attempts(log, ip_id, t)
    IN  [ip_addresses |-> IF remaining_attempts < 0
                          THEN ban_ip(ips, ip_id, BAN_TIME_IP, t)
                          ELSE ips,
         remaining_attempts |-> remaining_attempts]

failed_logins_ip(log, ips, ip_id, t) ==
    LET remaining_attempts == MAX_LOGIN_ATTEMPTS_IP - ip_login_attempts(log, ip_id, t)
    IN  [ip_addresses |-> IF remaining_attempts <= 0
                          THEN ban_ip(ips, ip_id, BAN_TIME_IP, t)
                          ELSE ips,
         remaining_attempts |-> remaining_attempts]

\* Mutant: the ban length is returned but the account's row is not updated.
ban_account_no_update(accts, account_id, length, t) ==
    [accounts |-> accts, length |-> length]

\* UPDATE accounts SET ban_until = NOW + length, ban_count = ban_count + 1
\* WHERE id = account_id; nothing is written for account_id 0 / None.
ban_account(accts, account_id, length, t) ==
    [accounts |-> IF account_id # 0
                  THEN [a \in DOMAIN accts |->
                          IF a = account_id
                          THEN [accts[a] EXCEPT !.ban_until = t + length,
                                                !.ban_count = @ + 1]
                          ELSE accts[a]]
                  ELSE accts,
     length |-> length]

\* Mutant: the expiry time is returned instead of the seconds left.
account_ban_remaining_absolute(accts, account_id, t) ==
    IF account_id # 0 /\ account_id \in DOMAIN accts /\ accts[account_id].ban_until > t
    THEN accts[account_id].ban_until
    ELSE 0

\* SELECT GREATEST(ban_until, NOW) - NOW FROM accounts WHERE id = account_id,
\* 0 for no account id and for an id with no row (IndexError).
account_ban_remaining(accts, account_id, t) ==
    IF account_id # 0 /\ account_id \in DOMAIN accts
    THEN Greatest(accts[account_id].ban_until, t) - t
    ELSE 0

\* SELECT attempt_time ... WHERE success = 1 AND field_data = hash
\* ORDER BY attempt_time DESC LIMIT 1, 0 when there is none (IndexError).
last_login(log, hash) ==
    LET S == {log[i].attempt_time : i \in {j \in DOMAIN log :
                  log[j].success = 1 /\ log[j].field_data = hash}}
    IN  IF S = {} THEN 0 ELSE CHOOSE m \in S : \A x \in S : x <= m

\* Mutant: the count has no window, every row after the last success counts.
failed_logins_no_window(log, hash, t) ==
    Cardinality({i \in DOMAIN log :
        /\ log[i].attempt_time > last_login(log, hash)
        /\ log[i].field_data = hash})

\* Mutant: the last successful login does not restart the count.
failed_logins_window_only(log, hash, t) ==
    Cardinality({i \in DOMAIN log :
        /\ log[i].attempt_time > t - BAN_TIME_ACCOUNT
        /\ log[i].field_data = hash})

\* SELECT count(*) FROM login_attempts
\* WHERE attempt_time > GREATEST(last_login, NOW - BAN_TIME_ACCOUNT) AND field_data = hash
failed_logins(log, hash, t) ==
    Cardinality({i \in DOMAIN log :
        /\ log[i].attempt_time > Greatest(last_login(log, hash), t - BAN_TIME_ACCOUNT)
        /\ log[i].field_data = hash})

\* Mutant: the OFFSET is dropped, the newest failed row is taken.
ban_offset_newest(log, hash, offset, t) ==
    LET R == {i \in DOMAIN log : log[i].success < 1 /\ log[i].field_data = hash}
        T == {log[i].attempt_time : i \in R}
    IN  IF T = {} THEN 0 ELSE t - (CHOOSE v \in T : \A w \in T : w <= v)

\* Mutant: the rows are ordered by attempt_time ascending.
ban_offset_ascending(log, hash, offset, t) ==
    LET R == {i \in DOMAIN log : log[i].success < 1 /\ log[i].field_data = hash}
        T == {log[i].attempt_time : i \in R}
        V == {v \in T : /\ Cardinality({i \in R : log[i].attempt_time < v}) <= offset
                        /\ Cardinality({i \in R : log[i].attempt_time <= v}) > offset}
    IN  IF V = {} THEN 0 ELSE t - (CHOOSE v \in V : TRUE)

\* The same count with the last_login a call read in an earlier statement.
count_failed_logins(log, hash, since, t) ==
    Cardinality({i \in DOMAIN log :
        /\ log[i].attempt_time > Greatest(since, t - BAN_TIME_ACCOUNT)
        /\ log[i].field_data = hash})

\* SELECT NOW - attempt_time ... WHERE success < 1 AND field_data = hash
\* ORDER BY attempt_time DESC LIMIT 1 OFFSET offset, 0 when there is no such
\* row (IndexError).  The row at OFFSET k of the descending order holds the
\* time v with at most k rows later than v and more than k rows at or after v.
ban_offset(log, hash, offset, t) ==
    LET R == {i \in DOMAIN log : log[i].success < 1 /\ log[i].field_data = hash}
        T == {log[i].attempt_time : i \in R}
        V == {v \in T : /\ Cardinality({i \in R : log[i].attempt_time > v}) <= offset
                        /\ Cardinality({i \in R : log[i].attempt_time >= v}) > offset}
    IN  IF V = {} THEN 0 ELSE t - (CHOOSE v \in V : TRUE)

\* Mutant: a running ban does not stop the count and a new ban.
failed_logins_account_no_short_circuit(log, accts, account_id, field_data, t) ==
    LET hash == quick_hash(field_data)
        banned == account_ban_remaining(accts, account_id, t)
        remaining_attempts == MAX_LOGIN_ATTEMPTS_ACCOUNT - failed_logins(log, hash, t)
        ban == ban_account(accts, account_id, BAN_TIME_ACCOUNT, t)
    IN  IF remaining_attempts <= 0
        THEN [accounts |-> ban.accounts,
              remaining_attempts |-> remaining_attempts,
              ban_remaining |->
                 IF account_id = 0
                 THEN ban.length - ban_offset(log, hash, 0 - remaining_attempts, t)
                 ELSE ban.length]
        ELSE [accounts |-> accts, remaining_attempts |-> remaining_attempts,
              ban_remaining |-> banned]

\* Mutant: the account is banned only once the count exceeds the maximum.
failed_logins_account_late(log, accts, account_id, field_data, t) ==
    LET hash == quick_hash(field_data)
        banned == account_ban_remaining(accts, account_id, t)
        remaining_attempts == MAX_LOGIN_ATTEMPTS_ACCOUNT - failed_logins(log, hash, t)
        ban == ban_account(accts, account_id, BAN_TIME_ACCOUNT, t)
    IN  IF banned # 0
        THEN [accounts |-> accts, remaining_attempts |-> 0, ban_remaining |-> banned]
        ELSE IF remaining_attempts < 0
        THEN [accounts |-> ban.accounts,
              remaining_attempts |-> remaining_attempts,
              ban_remaining |->
                 IF account_id = 0
                 THEN ban.length - ban_offset(log, hash, 0 - remaining_attempts, t)
                 ELSE ban.length]
        ELSE [accounts |-> accts, remaining_attempts |-> remaining_attempts,
              ban_remaining |-> 0]

\* failed_logins_account: the ban still running, or the remaining attempts,
\* banning the account when none remain.
failed_logins_account(log, accts, account_id, field_data, t) ==
    LET hash == quick_hash(field_data)
        banned == account_ban_remaining(accts, account_id, t)
        remaining_attempts == MAX_LOGIN_ATTEMPTS_ACCOUNT - failed_logins(log, hash, t)
        ban == ban_account(accts, account_id, BAN_TIME_ACCOUNT, t)
    IN  IF banned # 0
        THEN [accounts |-> accts, remaining_attempts |-> 0, ban_remaining |-> banned]
        ELSE IF remaining_attempts <= 0
        THEN [accounts |-> ban.accounts,
              remaining_attempts |-> remaining_attempts,
              ban_remaining |->
                 IF account_id = 0
                 THEN ban.length - ban_offset(log, hash, 0 - remaining_attempts, t)
                 ELSE ban.length]
        ELSE [accounts |-> accts, remaining_attempts |-> remaining_attempts,
              ban_remaining |-> 0]

\* Mutant: a correct password overrides the account ban.
login_status_unless_valid(valid, ban_remaining) ==
    IF ban_remaining > 0 /\ valid = 0 THEN 0 - 1 ELSE valid

\* "if ban_remaining > 0: ... valid = -1", then data['status'] = valid
login_status(valid, ban_remaining) ==
    IF ban_remaining > 0 THEN 0 - 1 ELSE valid

\* Mutant: the attempt is recorded and throttled when either the ip or the
\* login field is given.
login_throttle_if_either(log, ips, accts, account_id, password, ip_id, form_data, t) ==
    LET found == account_id # 0 /\ account_id \in DOMAIN accts
        valid == IF found /\ password_check(password, accts[account_id].password)
                 THEN 1 ELSE 0
        errors0 == IF valid = 1 THEN <<>> ELSE << <<"Incorrect login details">> >>
        account == IF valid = 1 THEN account_id ELSE 0
        log1 == login_attempt_record(log, form_data, ip_id, valid, t)
        acc == failed_logins_account(log1, accts, account_id, form_data, t)
    IN  IF ip_id # None \/ form_data # None
        THEN [login_attempts |-> log1,
              ip_addresses |-> ips,
              accounts |-> acc.accounts,
              account |-> account,
              remaining_ip |-> 0,
              remaining_account |-> acc.remaining_attempts,
              ban_remaining |-> acc.ban_remaining,
              warnings |-> <<>>,
              errors |-> errors0,
              status |-> login_status(valid, acc.ban_remaining)]
        ELSE [login_attempts |-> log,
              ip_addresses |-> ips,
              accounts |-> accts,
              account |-> account,
              remaining_ip |-> 0, remaining_account |-> 0, ban_remaining |-> 0,
              warnings |-> <<>>,
              errors |-> errors0,
              status |-> valid]

\* Mutant: the throttles count before the attempt row is inserted.
login_count_before_record(log, ips, accts, account_id, password, ip_id, form_data, t) ==
    LET found == account_id # 0 /\ account_id \in DOMAIN accts
        valid == IF found /\ password_check(password, accts[account_id].password)
                 THEN 1 ELSE 0
        errors0 == IF valid = 1 THEN <<>> ELSE << <<"Incorrect login details">> >>
        account == IF valid = 1 THEN account_id ELSE 0
        log1 == login_attempt_record(log, form_data, ip_id, valid, t)
        ipc == failed_logins_ip(log, ips, ip_id, t)
        warnings1 == IF ipc.remaining_attempts <= WARNING_THRESHOLD
                     THEN << <<"ip", ipc.remaining_attempts>> >> ELSE <<>>
        acc == failed_logins_account(log, accts, account_id, form_data, t)
    IN  IF ip_id # None /\ form_data # None
        THEN [login_attempts |-> log1,
              ip_addresses |-> ipc.ip_addresses,
              accounts |-> acc.accounts,
              account |-> account,
              remaining_ip |-> ipc.remaining_attempts,
              remaining_account |-> acc.remaining_attempts,
              ban_remaining |-> acc.ban_remaining,
              warnings |-> IF acc.ban_remaining <= 0
                              /\ acc.remaining_attempts <= WARNING_THRESHOLD
                           THEN Append(warnings1, <<"account", acc.remaining_attempts>>)
                           ELSE warnings1,
              errors |-> IF acc.ban_remaining > 0
                         THEN Append(errors0, <<"disabled", acc.ban_remaining>>)
                         ELSE errors0,
              status |-> login_status(valid, acc.ban_remaining)]
        ELSE [login_attempts |-> log,
              ip_addresses |-> ips,
              accounts |-> accts,
              account |-> account,
              remaining_ip |-> 0, remaining_account |-> 0, ban_remaining |-> 0,
              warnings |-> <<>>,
              errors |-> errors0,
              status |-> valid]

\* login: the credential check, then (with ip_id and form_data) the attempt
\* row and the two throttles.  Returns the tables and the data dictionary.
login(log, ips, accts, account_id, password, ip_id, form_data, t) ==
    LET found == account_id # 0 /\ account_id \in DOMAIN accts
        valid == IF found /\ password_check(password, accts[account_id].password)
                 THEN 1 ELSE 0
        errors0 == IF valid = 1 THEN <<>> ELSE << <<"Incorrect login details">> >>
        account == IF valid = 1 THEN account_id ELSE 0
        log1 == login_attempt_record(log, form_data, ip_id, valid, t)
        ipc == failed_logins_ip(log1, ips, ip_id, t)
        warnings1 == IF ipc.remaining_attempts <= WARNING_THRESHOLD
                     THEN << <<"ip", ipc.remaining_attempts>> >> ELSE <<>>
        acc == failed_logins_account(log1, accts, account_id, form_data, t)
    IN  IF ip_id # None /\ form_data # None
        THEN [login_attempts |-> log1,
              ip_addresses |-> ipc.ip_addresses,
              accounts |-> acc.accounts,
              account |-> account,
              remaining_ip |-> ipc.remaining_attempts,
              remaining_account |-> acc.remaining_attempts,
              ban_remaining |-> acc.ban_remaining,
              warnings |-> IF acc.ban_remaining <= 0
                              /\ acc.remaining_attempts <= WARNING_THRESHOLD
                           THEN Append(warnings1, <<"account", acc.remaining_attempts>>)
                           ELSE warnings1,
              errors |-> IF acc.ban_remaining > 0
                         THEN Append(errors0, <<"disabled", acc.ban_remaining>>)
                         ELSE errors0,
              status |-> login_status(valid, acc.ban_remaining)]
        ELSE [login_attempts |-> log,
              ip_addresses |-> ips,
              accounts |-> accts,
              account |-> account,
              remaining_ip |-> 0, remaining_account |-> 0, ban_remaining |-> 0,
              warnings |-> <<>>,
              errors |-> errors0,
              status |-> valid]

-----------------------------------------------------------------------------
(* User and PersistentLogin (src/flaskapp/database/models/user.py).        *)
(* A string is a sequence of 32-character blocks: a quick_hash is one      *)
(* block, a PersistentLogin.identifier two.                                *)

\* An identifier cookie that was never issued: two blocks that are no
\* stored seed and no user's identifier.
BogusIdentifier ==
    <<random_hash(0), quick_hash(<<password_hash("bogus", 0), "nobody@example.org">>)>>

\* Mutant: the identifier is derived from the email address alone.
user_identifier_email_only(usrs, user_id) ==
    << quick_hash(<<password_hash("", 0), usrs[user_id].email>>) >>

\* User.identifier: quick_hash(password + email), one block.
user_identifier(usrs, user_id) ==
    << quick_hash(<<usrs[user_id].password, usrs[user_id].email>>) >>

\* session.identifier[32:64]
second_half(identifier) == SubSeq(identifier, 2, 2)

\* PersistentLogin.__init__ with validate_token: the row of a new session.
\* seed is the number of the random value quick_hash() returns.
PersistentLogin(usrs, user_id, token, seed) ==
    [user_id |-> user_id,
     identifier |-> <<random_hash(seed)>> \o user_identifier(usrs, user_id),
     token |-> quick_hash(token)]

\* Mutant: the new token is returned but never stored.
regenerate_token_not_stored(session, n) ==
    [session |-> session, token |-> generate_uuid(n)]

\* Mutant: the stored (hashed) token is returned to the caller.
regenerate_token_returns_stored(session, n) ==
    [session |-> [session EXCEPT !.token = quick_hash(generate_uuid(n))],
     token |-> quick_hash(generate_uuid(n))]

\* regenerate_token: the n-th uuid, stored hashed (validate_token).
regenerate_token(session, n) ==
    [session |-> [session EXCEPT !.token = quick_hash(generate_uuid(n))],
     token |-> generate_uuid(n)]

\* PersistentLogin.query.filter(PersistentLogin.user.identifier == session.identifier):
\* the rows whose user's identifier (one block) equals the session's
\* identifier (two blocks).  (Where the ORM refuses the attribute of a
\* relationship, the call raises instead; no row is deleted either way.)
all_sessions(rows, usrs, session) ==
    {s \in rows : user_identifier(usrs, s.user_id) = session.identifier}

\* Mutant: any identifier mismatch deletes the sessions of the matched
\* session's user, whatever the second half of the stored identifier.
get_session_delete_on_mismatch(rows, usrs, token, identifier, n) ==
    LET hashed == quick_hash(token)
        found == {s \in rows : s.token = hashed}
        session == CHOOSE s \in found : TRUE
        rotated == regenerate_token(session, n)
    IN  IF found = {}
        THEN [sessions |-> rows, result |-> None, token |-> None, drawn |-> 0]
        ELSE IF session.identifier # identifier
        THEN [sessions |-> {s \in rows : s.user_id # session.user_id},
              result |-> None, token |-> None, drawn |-> 0]
        ELSE IF second_half(session.identifier) # user_identifier(usrs, session.user_id)
        THEN [sessions |-> rows, result |-> None, token |-> None, drawn |-> 0]
        ELSE [sessions |-> (rows \ {session}) \cup {rotated.session},
              result |-> "session", token |-> rotated.token, drawn |-> 1]

\* get_session.  n is the number of the next random value.  Returns the
\* table, the result (None, or "session" with the new token) and the number
\* of random values drawn.
get_session(rows, usrs, token, identifier, n) ==
    LET hashed == quick_hash(token)
        found == {s \in rows : s.token = hashed}
        session == CHOOSE s \in found : TRUE
        rotated == regenerate_token(session, n)
    IN  IF found = {}
        THEN [sessions |-> rows, result |-> None, token |-> None, drawn |-> 0]
        ELSE IF session.identifier # identifier
        THEN [sessions |-> IF second_half(session.identifier)
                                 = user_identifier(usrs, session.user_id)
                           THEN rows \ all_sessions(rows, usrs, session)
                           ELSE rows,
              result |-> None, token |-> None, drawn |-> 0]
        ELSE IF second_half(session.identifier) # user_identifier(usrs, session.user_id)
        THEN [sessions |-> rows, result |-> None, token |-> None, drawn |-> 0]
        ELSE [sessions |-> (rows \ {session}) \cup {rotated.session},
              result |-> "session", token |-> rotated.token, drawn |-> 1]

-----------------------------------------------------------------------------
(* The state machine.                                                      *)

\* The concurrent calls, and a call that has not started: the locals of
\* login and of the throttles it calls, and the statement it is at.
Calls == 1..MaxCalls
NoCall ==
    [pc |-> "idle", account_id |-> 0, ip_id |-> None, form_data |-> None,
     valid |-> 0, ban_until |-> 0, attempt_id |-> 0,
     remaining_ip |-> 0, last_login |-> 0, remaining_account |-> 0,
     ban_remaining |-> 0, status |-> 0]

Init ==
    /\ now = Epoch
    /\ login_attempts = <<>>
    /\ ip_addresses = [i \in Ips |-> [ban_until |-> 0, ban_count |-> 0]]
    /\ accounts = [a \in AccountIds |->
                     [username |-> "alice", password |-> password_hash("secret", 0),
                      ban_until |-> 0, ban_count |-> 0]]
    /\ users = [u \in UserIds |->
                  [password |-> password_hash("secret", 0), email |-> Emails[u]]]
    /\ sessions = {}
    /\ fresh = 0
    /\ last = [op |-> "init"]
    /\ calls = [c \in Calls |-> NoCall]

\* A second passes on the database server.
Tick ==
    /\ now < Epoch + MaxTicks
    /\ now' = now + 1
    /\ last' = [op |-> "tick"]
    /\ UNCHANGED <<login_attempts, ip_addresses, accounts, session_vars, calls>>

\* A call of DatabaseCommands.login.
Login(account_id, password, ip_id, form_data) ==
    LET r == login(login_attempts, ip_addresses, accounts,
                   account_id, password, ip_id, form_data, now)
    IN  /\ (ip_id # None /\ form_data # None) => Len(login_attempts) < MaxLog
        /\ login_attempts' = r.login_attempts
        /\ ip_addresses' = r.ip_addresses
        /\ accounts' = r.accounts
        /\ last' = [op |-> "login", account_id |-> account_id,
                    ip_id |-> ip_id, form_data |-> form_data,
                    status |-> r.status, account |-> r.account,
                    remaining_ip |-> r.remaining_ip,
                    remaining_account |-> r.remaining_account,
                    ban_remaining |-> r.ban_remaining,
                    warnings |-> r.warnings, errors |-> r.errors]
        /\ UNCHANGED <<now, session_vars, calls>>

\* login is the only caller of the two throttles.  Its callers resolve the
\* account id from the login field the client typed (get_account_id).
Next ==
    \/ Tick
    \/ \E p \in Passwords, i \in Ips, f \in Fields :
          Login(get_account_id(accounts, f), p, i, f)

Spec == Init /\ [][Next]_vars

\* A call of DatabaseCommands.login without the ip or without the login
\* field (both default to None): the account id is whatever the caller
\* passes, resolved from the login field when there is one.
LoginCheck(account_id, password, ip_id, form_data) ==
    LET r == login(login_attempts, ip_addresses, accounts,
                   account_id, password, ip_id, form_data, now)
    IN  /\ ip_id = None \/ form_data = None
        /\ form_data # None => account_id = get_account_id(accounts, form_data)
        /\ login_attempts' = r.login_attempts
        /\ ip_addresses' = r.ip_addresses
        /\ accounts' = r.accounts
        /\ last' = [op |-> "login", account_id |-> account_id, password |-> password,
                    ip_id |-> ip_id, form_data |-> form_data,
                    status |-> r.status, account |-> r.account,
                    remaining_ip |-> r.remaining_ip,
                    remaining_account |-> r.remaining_account,
                    ban_remaining |-> r.ban_remaining,
                    warnings |-> r.warnings, errors |-> r.errors]
        /\ UNCHANGED <<now, session_vars, calls>>

\* The client that makes throttled logins between the credential checks,
\* and the login field it types.
ThrottledIps == {"ip1"}
ThrottledFields == {"alice"}

\* Throttled logins (from one ip for the existing account: they fill the
\* log and ban the ip and the account), and the logins without ip or login
\* field.
CredentialNext ==
    \/ Tick
    \/ \E p \in Passwords, i \in ThrottledIps, f \in ThrottledFields :
          Login(get_account_id(accounts, f), p, i, f)
    \/ \E a \in AccountIds \cup {0}, p \in Passwords,
          i \in Ips \cup {None}, f \in Fields \cup {None} :
          LoginCheck(a, p, i, f)

CredentialSpec == Init /\ [][CredentialNext]_vars

-----------------------------------------------------------------------------
(* Concurrent login calls.  DatabaseConnection.sql executes and commits    *)
(* one statement at a time, so a call is a sequence of atomic statements   *)
(* and the statements of different calls interleave.  Each action below    *)
(* is one statement of a call c, with the Python that follows it up to     *)
(* the next statement.                                                     *)

InFlight(c) == calls[c].pc \notin {"idle", "done"}

\* A second passes between calls: the statements of a call take
\* milliseconds, so the calls that overlap run within one second.
ConcurrentTick ==
    /\ \A c \in Calls : ~InFlight(c)
    /\ Tick

\* login: SELECT password, ..., ban_until FROM accounts WHERE id = account_id,
\* and the password check.  The calls are interchangeable: they start in
\* the order of their numbers.
CallSelect(c, account_id, password, ip_id, form_data) ==
    LET found == account_id # 0 /\ account_id \in DOMAIN accounts
    IN  /\ calls[c].pc = "idle"
        /\ \A d \in Calls : d < c => calls[d].pc # "idle"
        /\ calls' = [calls EXCEPT ![c] =
              [@ EXCEPT !.pc = "record",
                        !.account_id = account_id,
                        !.ip_id = ip_id,
                        !.form_data = form_data,
                        !.valid = IF found /\ password_check(password,
                                                 accounts[account_id].password)
                                  THEN 1 ELSE 0,
                        !.ban_until = IF found THEN accounts[account_id].ban_until ELSE 0]]
        /\ last' = [op |-> "statement"]
        /\ UNCHANGED <<throttle_vars, session_vars>>

\* login_attempt_record: the INSERT.
CallRecord(c) ==
    /\ calls[c].pc = "record"
    /\ Len(login_attempts) < MaxLog
    /\ login_attempts' = login_attempt_record(login_attempts, calls[c].form_data,
                                              calls[c].ip_id, calls[c].valid, now)
    /\ calls' = [calls EXCEPT ![c] =
          [@ EXCEPT !.pc = "count_ip", !.attempt_id = Len(login_attempts) + 1]]
    /\ last' = [op |-> "statement"]
    /\ UNCHANGED <<now, ip_addresses, accounts, session_vars>>

\* failed_logins_ip: the count.
CallCountIp(c) ==
    LET remaining_attempts ==
            MAX_LOGIN_ATTEMPTS_IP - ip_login_attempts(login_attempts, calls[c].ip_id, now)
    IN  /\ calls[c].pc = "count_ip"
        /\ calls' = [calls EXCEPT ![c] =
              [@ EXCEPT !.pc = IF remaining_attempts <= 0 THEN "ban_ip" ELSE "ban_query",
                        !.remaining_ip = remaining_attempts]]
        /\ last' = [op |-> "statement"]
        /\ UNCHANGED <<throttle_vars, session_vars>>

\* ban_ip: the UPDATE.
CallBanIp(c) ==
    /\ calls[c].pc = "ban_ip"
    /\ ip_addresses' = ban_ip(ip_addresses, calls[c].ip_id, BAN_TIME_IP, now)
    /\ calls' = [calls EXCEPT ![c] = [@ EXCEPT !.pc = "ban_query"]]
    /\ last' = [op |-> "statement"]
    /\ UNCHANGED <<now, login_attempts, accounts, session_vars>>

\* failed_logins_account: the ban query (no statement for account id 0).
CallBanQuery(c) ==
    LET ban_remaining == account_ban_remaining(accounts, calls[c].account_id, now)
    IN  /\ calls[c].pc = "ban_query"
        /\ calls' = [calls EXCEPT ![c] =
              [@ EXCEPT !.pc = IF ban_remaining # 0 THEN "return" ELSE "last_login",
                        !.ban_remaining = ban_remaining,
                        !.remaining_account = 0]]
        /\ last' = [op |-> "statement"]
        /\ UNCHANGED <<throttle_vars, session_vars>>

\* failed_logins_account: the last successful login.
CallLastLogin(c) ==
    /\ calls[c].pc = "last_login"
    /\ calls' = [calls EXCEPT ![c] =
          [@ EXCEPT !.pc = "count",
                    !.last_login = last_login(login_attempts,
                                              quick_hash(calls[c].form_data))]]
    /\ last' = [op |-> "statement"]
    /\ UNCHANGED <<throttle_vars, session_vars>>

\* failed_logins_account: the count of failed logins.
CallCount(c) ==
    LET remaining_attempts ==
            MAX_LOGIN_ATTEMPTS_ACCOUNT
            - count_failed_logins(login_attempts, quick_hash(calls[c].form_data),
                                  calls[c].last_login, now)
    IN  /\ calls[c].pc = "count"
        /\ calls' = [calls EXCEPT ![c] =
              [@ EXCEPT !.pc = IF remaining_attempts > 0 THEN "return"
                               ELSE IF calls[c].account_id # 0 THEN "ban_account"
                               ELSE "ban_offset",
                        !.remaining_account = remaining_attempts]]
        /\ last' = [op |-> "statement"]
        /\ UNCHANGED <<throttle_vars, session_vars>>

\* ban_account: the UPDATE.
CallBanAccount(c) ==
    LET ban == ban_account(accounts, calls[c].account_id, BAN_TIME_ACCOUNT, now)
    IN  /\ calls[c].pc = "ban_account"
        /\ accounts' = ban.accounts
        /\ calls' = [calls EXCEPT ![c] =
              [@ EXCEPT !.pc = "return", !.ban_remaining = ban.length]]
        /\ last' = [op |-> "statement"]
        /\ UNCHANGED <<now, login_attempts, ip_addresses, session_vars>>

\* failed_logins_account for no account: ban_account returns the length,
\* and the ban_offset query reduces it.
CallBanOffset(c) ==
    /\ calls[c].pc = "ban_offset"
    /\ calls' = [calls EXCEPT ![c] =
          [@ EXCEPT !.pc = "return",
                    !.ban_remaining =
                        BAN_TIME_ACCOUNT
                        - ban_offset(login_attempts, quick_hash(calls[c].form_data),
                                     0 - calls[c].remaining_account, now)]]
    /\ last' = [op |-> "statement"]
    /\ UNCHANGED <<throttle_vars, session_vars>>

\* login returns data, with data['status'].
CallReturn(c) ==
    /\ calls[c].pc = "return"
    /\ calls' = [calls EXCEPT ![c] =
          [@ EXCEPT !.pc = "done",
                    !.status = login_status(calls[c].valid, calls[c].ban_remaining)]]
    /\ last' = [op |-> "statement"]
    /\ UNCHANGED <<throttle_vars, session_vars>>

ConcurrentNext ==
    \/ ConcurrentTick
    \/ \E c \in Calls :
          \/ \E p \in Passwords, i \in ThrottledIps, f \in Fields :
                CallSelect(c, get_account_id(accounts, f), p, i, f)
          \/ CallRecord(c)
          \/ CallCountIp(c)
          \/ CallBanIp(c)
          \/ CallBanQuery(c)
          \/ CallLastLogin(c)
          \/ CallCount(c)
          \/ CallBanAccount(c)
          \/ CallBanOffset(c)
          \/ CallReturn(c)

ConcurrentSpec == Init /\ [][ConcurrentNext]_vars

-----------------------------------------------------------------------------
(* Persistent logins.                                                      *)

\* A new persistent login for a user: a fresh token and a fresh seed.
Issue(user_id) ==
    /\ fresh + 2 <= MaxFresh
    /\ Cardinality(sessions) < MaxSessions
    /\ sessions' = sessions \cup
          {PersistentLogin(users, user_id, generate_uuid(fresh + 1), fresh + 2)}
    /\ fresh' = fresh + 2
    /\ last' = [op |-> "issue", user_id |-> user_id,
                token |-> generate_uuid(fresh + 1)]
    /\ UNCHANGED <<throttle_vars, users, calls>>

\* A call of PersistentLogin.get_session with the cookies a client sent.
GetSession(token, identifier) ==
    LET r == get_session(sessions, users, token, identifier, fresh + 1)
    IN  /\ fresh + 1 <= MaxFresh
        /\ sessions' = r.sessions
        /\ fresh' = fresh + r.drawn
        /\ last' = [op |-> "get_session", token |-> token, identifier |-> identifier,
                    result |-> r.result, new_token |-> r.token]
        /\ UNCHANGED <<throttle_vars, users, calls>>

\* A user's password is set: validate_password stores a new salted hash.
ChangePassword(user_id, password) ==
    /\ fresh + 1 <= MaxFresh
    /\ users' = [users EXCEPT ![user_id].password = password_hash(password, fresh + 1)]
    /\ fresh' = fresh + 1
    /\ last' = [op |-> "change_password", user_id |-> user_id]
    /\ UNCHANGED <<throttle_vars, sessions, calls>>

\* The cookies a client may present: every token drawn so far, and every
\* identifier stored, or one never issued.
Tokens == {generate_uuid(n) : n \in 1..fresh}
Identifiers == {s.identifier : s \in sessions} \cup {BogusIdentifier}

SessionNext ==
    \/ \E u \in UserIds : Issue(u)
    \/ \E tk \in Tokens, id \in Identifiers : GetSession(tk, id)
    \/ \E u \in UserIds, p \in Passwords : ChangePassword(u, p)

SessionSpec == Init /\ [][SessionNext]_vars

-----------------------------------------------------------------------------
(* The claims about the throttles, checked under Spec.  A claim about a    *)
(* call is a property of the step that makes it: last' holds the call and  *)
(* what it returned, the unprimed tables are the tables the call found.    *)

Range(seq) == {seq[i] : i \in DOMAIN seq}

\* The step is a login that recorded an attempt (ip and login field given).
LoginRecorded(r) == r.op = "login" /\ r.ip_id # None /\ r.form_data # None

\* failed_logins_ip ran for this ip (login calls it after recording).
IpChecked(r, ip) == LoginRecorded(r) /\ r.ip_id = ip

\* failed_logins_account ran (login calls it after the ip check).
AccountChecked(r) == LoginRecorded(r)

\* The rows of an ip inside the trailing BAN_TIME_IP seconds.
WindowCountIp(log, ip, t) ==
    Cardinality({i \in DOMAIN log : log[i].ip_id = ip
                                    /\ t - log[i].attempt_time < BAN_TIME_IP})

\* The failed attempts for a login field after the later of its last
\* success and the start of the trailing BAN_TIME_ACCOUNT seconds.
FailuresSince(log, field, t) ==
    LET mine == {i \in DOMAIN log : log[i].field_data = quick_hash(field)}
        won == {i \in mine : log[i].success = 1}
        after(i) == /\ log[i].attempt_time > t - BAN_TIME_ACCOUNT
                    /\ \A j \in won : log[i].attempt_time > log[j].attempt_time
    IN  Cardinality({i \in mine : log[i].success # 1 /\ after(i)})

\* C1 as stated: whenever failed_logins_ip runs for an ip with at most
\* MAX_LOGIN_ATTEMPTS_IP rows in the window, the ip's row is unchanged (no
\* ban) and the call returns MAX_LOGIN_ATTEMPTS_IP minus the count.
C1_AsStated ==
    [][\A ip \in Ips :
        (IpChecked(last', ip)
            /\ WindowCountIp(login_attempts', ip, now) <= MAX_LOGIN_ATTEMPTS_IP)
        => /\ ip_addresses'[ip] = ip_addresses[ip]
           /\ last'.remaining_ip
                = MAX_LOGIN_ATTEMPTS_IP - WindowCountIp(login_attempts', ip, now)]_vars

\* C1 amended: failed_logins_ip always returns MAX_LOGIN_ATTEMPTS_IP minus
\* the count of the ip's rows in the window; with a count below
\* MAX_LOGIN_ATTEMPTS_IP the ip's row is unchanged (no ban), and with a count
\* equal to MAX_LOGIN_ATTEMPTS_IP the call returns 0 and bans the ip.
C1_NoBanBelowThreshold ==
    [][\A ip \in Ips :
        IpChecked(last', ip)
        => LET count == WindowCountIp(login_attempts', ip, now)
           IN  /\ last'.remaining_ip = MAX_LOGIN_ATTEMPTS_IP - count
               /\ count < MAX_LOGIN_ATTEMPTS_IP => ip_addresses'[ip] = ip_addresses[ip]
               /\ count = MAX_LOGIN_ATTEMPTS_IP
                    => /\ last'.remaining_ip = 0
                       /\ ip_addresses'[ip].ban_until = now + BAN_TIME_IP
                       /\ ip_addresses'[ip].ban_count = ip_addresses[ip].ban_count + 1]_vars

\* The check found one row less than the threshold in the window, with an
\* older row of the ip outside it, and left the ip unbanned, returning 1.
C1_Witness ==
    \E ip \in Ips :
        /\ IpChecked(last, ip)
        /\ \E i \in DOMAIN login_attempts :
              /\ login_attempts[i].ip_id = ip
              /\ login_attempts[i].attempt_time <= now - BAN_TIME_IP
        /\ WindowCountIp(login_attempts, ip, now) = MAX_LOGIN_ATTEMPTS_IP - 1
        /\ last.remaining_ip = 1
        /\ ip_addresses[ip].ban_count = 0

\* C2: a check that finds the ip at or over the threshold sets ban_until to
\* now + BAN_TIME_IP, and ban_count rises by 1 when the count crossed the
\* threshold with this call and not at all when it was already over it.
C2_OneBanPerCrossing ==
    [][\A ip \in Ips :
        (IpChecked(last', ip) /\ last'.remaining_ip <= 0)
        => /\ ip_addresses'[ip].ban_until = now + BAN_TIME_IP
           /\ ip_addresses'[ip].ban_count
                = ip_addresses[ip].ban_count
                  + (IF WindowCountIp(login_attempts, ip, now) < MAX_LOGIN_ATTEMPTS_IP
                     THEN 1 ELSE 0)]_vars

\* C3: failed_logins_account for an account with ban_until > now returns
\* remaining attempts 0 and ban seconds ban_until - now.
C3_BannedAccountCountdown ==
    [][\A a \in AccountIds :
        (AccountChecked(last') /\ last'.account_id = a /\ accounts[a].ban_until > now)
        => /\ last'.remaining_account = 0
           /\ last'.ban_remaining = accounts[a].ban_until - now]_vars

\* A check of an account whose ban was issued at least a second earlier,
\* made by a login with a wrong password.
C3_Witness ==
    /\ AccountChecked(last)
    /\ last.account_id \in AccountIds
    /\ last.account = 0
    /\ accounts[last.account_id].ban_until > now
    /\ last.remaining_account = 0
    /\ last.ban_remaining = accounts[last.account_id].ban_until - now
    /\ last.ban_remaining < BAN_TIME_ACCOUNT

\* C4: for an account that is not banned (or no account), the failure count
\* failed_logins_account uses, MAX_LOGIN_ATTEMPTS_ACCOUNT minus the remaining
\* attempts it returns, is the number of failed attempts for the login field
\* after max(last success, now - BAN_TIME_ACCOUNT).
C4_FailureCountSinceLastSuccess ==
    [][(AccountChecked(last')
          /\ (last'.account_id \in AccountIds
                => accounts[last'.account_id].ban_until <= now))
       => MAX_LOGIN_ATTEMPTS_ACCOUNT - last'.remaining_account
            = FailuresSince(login_attempts', last'.form_data, now)]_vars

\* A check of a login field with a failure, then a success, then a later
\* failure in the log: only the later failure is counted.
C4_Witness ==
    /\ AccountChecked(last)
    /\ last.ban_remaining = 0
    /\ last.remaining_account = MAX_LOGIN_ATTEMPTS_ACCOUNT - 1
    /\ \E i, j, k \in DOMAIN login_attempts :
          /\ i < j /\ j < k
          /\ \A m \in {i, j, k} :
                login_attempts[m].field_data = quick_hash(last.form_data)
          /\ login_attempts[i].success = 0
          /\ login_attempts[j].success = 1
          /\ login_attempts[k].success = 0
          /\ login_attempts[k].attempt_time > login_attempts[j].attempt_time
          /\ login_attempts[i].attempt_time > now - BAN_TIME_ACCOUNT

\* C7: a login with ip and login field for an account with ban_until > now
\* returns status -1 and an error naming ban_until - now seconds, whether or
\* not the password is right.
C7_BannedAccountRefused ==
    [][\A a \in AccountIds :
        (LoginRecorded(last') /\ last'.account_id = a /\ accounts[a].ban_until > now)
        => /\ last'.status = 0 - 1
           /\ <<"disabled", accounts[a].ban_until - now>> \in Range(last'.errors)]_vars

\* A login with the right password (the account fields were filled in)
\* during a ban issued at least a second earlier.
C7_Witness ==
    /\ LoginRecorded(last)
    /\ last.account \in AccountIds
    /\ last.status = 0 - 1
    /\ last.ban_remaining > 0
    /\ last.ban_remaining < BAN_TIME_ACCOUNT

\* C8: a login from an ip with ban_until > now never returns status 1.
C8_BannedIpRefused ==
    [][\A ip \in Ips :
        (LoginRecorded(last') /\ last'.ip_id = ip /\ ip_addresses[ip].ban_until > now)
        => last'.status # 1]_vars

\* C10 as stated: MAX_LOGIN_ATTEMPTS_IP attempts in the window leave the ip
\* unbanned, and the login that bans a so far unbanned ip is attempt number
\* MAX_LOGIN_ATTEMPTS_IP + 1 of the window and returns remaining = 0.
C10_AsStated ==
    [][\A ip \in Ips :
        (LoginRecorded(last') /\ last'.ip_id = ip /\ ip_addresses[ip].ban_until <= now)
        => LET count == WindowCountIp(login_attempts', ip, now)
           IN  /\ count <= MAX_LOGIN_ATTEMPTS_IP => ip_addresses'[ip].ban_until <= now
               /\ ip_addresses'[ip].ban_until > now
                    => /\ count = MAX_LOGIN_ATTEMPTS_IP + 1
                       /\ last'.remaining_ip = 0
                       /\ ip_addresses'[ip].ban_until = now + BAN_TIME_IP]_vars

\* C10 amended: fewer than MAX_LOGIN_ATTEMPTS_IP attempts in the window leave
\* the ip unbanned, and the login that bans a so far unbanned ip is attempt
\* number MAX_LOGIN_ATTEMPTS_IP of the window: its ip check returns
\* remaining = 0 and bans the ip until now + BAN_TIME_IP.
C10_BanOnMaxthAttempt ==
    [][\A ip \in Ips :
        (LoginRecorded(last') /\ last'.ip_id = ip /\ ip_addresses[ip].ban_until <= now)
        => LET count == WindowCountIp(login_attempts', ip, now)
           IN  /\ count < MAX_LOGIN_ATTEMPTS_IP
                    => ip_addresses'[ip].ban_until <= now /\ last'.remaining_ip > 0
               /\ count >= MAX_LOGIN_ATTEMPTS_IP
                    => /\ count = MAX_LOGIN_ATTEMPTS_IP
                       /\ last'.remaining_ip = 0
                       /\ ip_addresses'[ip].ban_until = now + BAN_TIME_IP
                       /\ ip_addresses'[ip].ban_count = ip_addresses[ip].ban_count + 1]_vars

\* The MAX_LOGIN_ATTEMPTS_IP-th failed login of an ip in the window: the
\* first ban of the ip, until now + BAN_TIME_IP, with remaining = 0.
C10_Witness ==
    \E ip \in Ips :
        /\ LoginRecorded(last) /\ last.ip_id = ip /\ last.status = 0
        /\ last.remaining_ip = 0
        /\ WindowCountIp(login_attempts, ip, now) = MAX_LOGIN_ATTEMPTS_IP
        /\ \A i \in DOMAIN login_attempts :
              login_attempts[i].ip_id = ip => login_attempts[i].success = 0
        /\ ip_addresses[ip] = [ban_until |-> now + BAN_TIME_IP, ban_count |-> 1]

\* A successful login for the field is in the log the call found.
SucceededBefore(log, field) ==
    \E j \in DOMAIN log : log[j].field_data = quick_hash(field) /\ log[j].success = 1

\* C11 as stated: after a success, a failed login of an unbanned account
\* that brings the failures since the success to at most
\* MAX_LOGIN_ATTEMPTS_ACCOUNT does not ban the account; the failure that bans
\* it is number MAX_LOGIN_ATTEMPTS_ACCOUNT + 1.
C11_AsStated ==
    [][\A a \in AccountIds :
        (/\ LoginRecorded(last') /\ last'.account_id = a /\ last'.account = 0
         /\ accounts[a].ban_until <= now
         /\ SucceededBefore(login_attempts, last'.form_data))
        => LET count == FailuresSince(login_attempts', last'.form_data, now)
           IN  /\ count <= MAX_LOGIN_ATTEMPTS_ACCOUNT => accounts'[a] = accounts[a]
               /\ accounts'[a] # accounts[a]
                    => count = MAX_LOGIN_ATTEMPTS_ACCOUNT + 1]_vars

\* C11 amended: after a success, a failed login of an unbanned account that
\* brings the failures since the success (inside the window) to fewer than
\* MAX_LOGIN_ATTEMPTS_ACCOUNT leaves the account unbanned and returns status
\* 0; the failure that brings them to MAX_LOGIN_ATTEMPTS_ACCOUNT (or more) is
\* the one that bans the account, until now + BAN_TIME_ACCOUNT, and returns
\* status -1.  The account tolerates MAX_LOGIN_ATTEMPTS_ACCOUNT - 1 failures.
C11_BanOnMaxthFailure ==
    [][\A a \in AccountIds :
        (/\ LoginRecorded(last') /\ last'.account_id = a /\ last'.account = 0
         /\ accounts[a].ban_until <= now
         /\ SucceededBefore(login_attempts, last'.form_data))
        => LET count == FailuresSince(login_attempts', last'.form_data, now)
           IN  /\ count < MAX_LOGIN_ATTEMPTS_ACCOUNT
                    => accounts'[a] = accounts[a] /\ last'.status = 0
               /\ count >= MAX_LOGIN_ATTEMPTS_ACCOUNT
                    => /\ accounts'[a].ban_until = now + BAN_TIME_ACCOUNT
                       /\ accounts'[a].ban_count = accounts[a].ban_count + 1
                       /\ last'.status = 0 - 1]_vars

\* A success, then MAX_LOGIN_ATTEMPTS_ACCOUNT failures at later, distinct
\* seconds and nothing else for the field: the last failure banned the
\* account for the first time.
C11_Witness ==
    /\ LoginRecorded(last) /\ last.account_id \in AccountIds /\ last.status = 0 - 1
    /\ accounts[last.account_id].ban_until = now + BAN_TIME_ACCOUNT
    /\ accounts[last.account_id].ban_count = 1
    /\ LET mine == {i \in DOMAIN login_attempts :
                      login_attempts[i].field_data = quick_hash(last.form_data)}
       IN  /\ Cardinality(mine) = MAX_LOGIN_ATTEMPTS_ACCOUNT + 1
           /\ \A i, j \in mine :
                 i < j => login_attempts[i].attempt_time < login_attempts[j].attempt_time
           /\ \A i \in mine :
                 login_attempts[i].success = 1 <=> (\A j \in mine : i <= j)

\* The attempts for a login field inside the trailing BAN_TIME_ACCOUNT
\* seconds.
WindowCountField(log, field, t) ==
    Cardinality({i \in DOMAIN log : /\ log[i].field_data = quick_hash(field)
                                    /\ log[i].attempt_time > t - BAN_TIME_ACCOUNT})

\* C12: a login with ip and login field for no account (account id 0) never
\* changes the accounts table, and when the attempts for the login field in
\* the window (this one included) have reached MAX_LOGIN_ATTEMPTS_ACCOUNT it
\* returns status -1 with more than 0 ban seconds.
C12_UnknownAccountThrottled ==
    [][(LoginRecorded(last') /\ last'.account_id = 0)
       => /\ accounts' = accounts
          /\ WindowCountField(login_attempts', last'.form_data, now)
                >= MAX_LOGIN_ATTEMPTS_ACCOUNT
               => /\ last'.status = 0 - 1
                  /\ last'.ban_remaining > 0
                  /\ last'.ban_remaining <= BAN_TIME_ACCOUNT]_vars

\* A login for no account that found more attempts in the window than the
\* maximum, the one that reached the maximum made a second or more earlier,
\* and an older attempt outside the window: status -1 with a part of
\* BAN_TIME_ACCOUNT left.
C12_Witness ==
    /\ LoginRecorded(last) /\ last.account_id = 0
    /\ last.status = 0 - 1
    /\ last.ban_remaining > 0 /\ last.ban_remaining < BAN_TIME_ACCOUNT
    /\ WindowCountField(login_attempts, last.form_data, now) > MAX_LOGIN_ATTEMPTS_ACCOUNT
    /\ \E i \in DOMAIN login_attempts :
          /\ login_attempts[i].field_data = quick_hash(last.form_data)
          /\ login_attempts[i].attempt_time <= now - BAN_TIME_ACCOUNT

\* C14: a login with ip and login field appends its attempt row before
\* either throttle counts, so the ip count it reports includes the row; and
\* the failed attempt that brings the failures of an unbanned identifier to
\* exactly MAX_LOGIN_ATTEMPTS_ACCOUNT returns status -1 with BAN_TIME_ACCOUNT
\* ban seconds and, for an existing account, bans it until
\* now + BAN_TIME_ACCOUNT.
C14_OwnAttemptCounted ==
    [][LoginRecorded(last')
       => /\ Len(login_attempts') = Len(login_attempts) + 1
          /\ SubSeq(login_attempts', 1, Len(login_attempts)) = login_attempts
          /\ LET own == login_attempts'[Len(login_attempts')]
             IN  /\ own.field_data = quick_hash(last'.form_data)
                 /\ own.ip_id = last'.ip_id
                 /\ own.attempt_time = now
          /\ last'.remaining_ip
               = MAX_LOGIN_ATTEMPTS_IP - WindowCountIp(login_attempts', last'.ip_id, now)
          /\ last'.remaining_ip < MAX_LOGIN_ATTEMPTS_IP
          /\ (/\ last'.account = 0
              /\ last'.account_id \in AccountIds
                    => accounts[last'.account_id].ban_until <= now
              /\ FailuresSince(login_attempts', last'.form_data, now)
                    = MAX_LOGIN_ATTEMPTS_ACCOUNT)
             => /\ last'.status = 0 - 1
                /\ last'.remaining_account = 0
                /\ last'.ban_remaining = BAN_TIME_ACCOUNT
                /\ \A a \in AccountIds :
                      last'.account_id = a
                      => /\ accounts'[a].ban_until = now + BAN_TIME_ACCOUNT
                         /\ accounts'[a].ban_count = accounts[a].ban_count + 1]_vars

\* Exactly MAX_LOGIN_ATTEMPTS_ACCOUNT attempts for an existing account's
\* login field are in the log, all failed, and the last one returned -1 and
\* banned the account for the first time.
C14_Witness ==
    /\ LoginRecorded(last) /\ last.account_id \in AccountIds
    /\ last.status = 0 - 1 /\ last.remaining_account = 0
    /\ last.ban_remaining = BAN_TIME_ACCOUNT
    /\ accounts[last.account_id].ban_count = 1
    /\ accounts[last.account_id].ban_until = now + BAN_TIME_ACCOUNT
    /\ ~SucceededBefore(login_attempts, last.form_data)
    /\ WindowCountField(login_attempts, last.form_data, now) = MAX_LOGIN_ATTEMPTS_ACCOUNT
    /\ Cardinality({i \in DOMAIN login_attempts :
            login_attempts[i].field_data = quick_hash(last.form_data)})
         = MAX_LOGIN_ATTEMPTS_ACCOUNT

\* C15: the attempt row written by a login that returns status -1 never
\* has success = 1.
C15_BannedAttemptRecordedFailed ==
    [][(LoginRecorded(last') /\ last'.status = 0 - 1)
       => login_attempts'[Len(login_attempts')].success # 1]_vars

\* C16: while an account's ban_until is in the future no step changes its
\* row, a login for it in particular; ban_count only ever rises by 1, and
\* only by a step that finds the account unbanned and bans it until
\* now + BAN_TIME_ACCOUNT.
C16_BanWindowUntouched ==
    [][\A a \in AccountIds :
        /\ accounts[a].ban_until > now => accounts'[a] = accounts[a]
        /\ accounts'[a].ban_count # accounts[a].ban_count
             => /\ AccountChecked(last') /\ last'.account_id = a
                /\ accounts[a].ban_until <= now
                /\ accounts'[a].ban_count = accounts[a].ban_count + 1
                /\ accounts'[a].ban_until = now + BAN_TIME_ACCOUNT]_vars

\* A failed login for an account banned a second or more earlier, which
\* found more failures in the window than the maximum: the ban is the first
\* and still ends when it was issued to end.
C16_Witness ==
    /\ AccountChecked(last) /\ last.account_id \in AccountIds /\ last.account = 0
    /\ last.status = 0 - 1
    /\ FailuresSince(login_attempts, last.form_data, now) > MAX_LOGIN_ATTEMPTS_ACCOUNT
    /\ accounts[last.account_id].ban_count = 1
    /\ accounts[last.account_id].ban_until > now
    /\ accounts[last.account_id].ban_until < now + BAN_TIME_ACCOUNT
    /\ login_attempts[Len(login_attempts)].attempt_time = now

\* C19: no step removes or changes a row of login_attempts (rows are only
\* appended), and what a login reports as remaining attempts is a function
\* of the log and the ban window alone: MAX_LOGIN_ATTEMPTS_IP minus the ip's
\* rows in the window, and for the account 0 during a ban and otherwise
\* MAX_LOGIN_ATTEMPTS_ACCOUNT minus the field's failures since its last
\* success in the window.
C19_AttemptLogAppendOnly ==
    [][/\ Len(login_attempts') >= Len(login_attempts)
       /\ \A i \in DOMAIN login_attempts : login_attempts'[i] = login_attempts[i]
       /\ LoginRecorded(last')
            => /\ last'.remaining_ip
                    = MAX_LOGIN_ATTEMPTS_IP
                      - WindowCountIp(login_attempts', last'.ip_id, now)
               /\ last'.remaining_account
                    = IF /\ last'.account_id \in AccountIds
                         /\ accounts[last'.account_id].ban_until > now
                      THEN 0
                      ELSE MAX_LOGIN_ATTEMPTS_ACCOUNT
                           - FailuresSince(login_attempts', last'.form_data, now)]_vars

\* A login was recorded after a ban of the account and of an ip, and the
\* log still holds a failed row older than both windows and a successful
\* row written after it.
C19_Witness ==
    /\ LoginRecorded(last)
    /\ \E a \in AccountIds : accounts[a].ban_count > 0
    /\ \E i, j \in DOMAIN login_attempts :
          /\ i < j
          /\ login_attempts[i].success = 0
          /\ login_attempts[i].attempt_time <= now - BAN_TIME_ACCOUNT
          /\ login_attempts[i].attempt_time <= now - BAN_TIME_IP
          /\ login_attempts[j].success = 1
          /\ login_attempts[j].field_data = login_attempts[i].field_data

\* The attempt_time of the attempt that brought the in-window attempts for
\* a login field to MAX_LOGIN_ATTEMPTS_ACCOUNT: fewer than the maximum are
\* older, and the maximum or more are as old or older.  (The set is empty
\* when the window holds fewer attempts.)
ReachedMaxAt(log, field, t) ==
    LET W == {i \in DOMAIN log : /\ log[i].field_data = quick_hash(field)
                                 /\ log[i].attempt_time > t - BAN_TIME_ACCOUNT}
    IN  {v \in {log[i].attempt_time : i \in W} :
            /\ Cardinality({i \in W : log[i].attempt_time < v})
                  < MAX_LOGIN_ATTEMPTS_ACCOUNT
            /\ Cardinality({i \in W : log[i].attempt_time <= v})
                  >= MAX_LOGIN_ATTEMPTS_ACCOUNT}

\* C21: when failed_logins_account for no account finds remaining attempts
\* <= 0, the ban seconds it returns are BAN_TIME_ACCOUNT minus the age of the
\* in-window attempt that brought the count to MAX_LOGIN_ATTEMPTS_ACCOUNT,
\* a number in 1..BAN_TIME_ACCOUNT.
C21_UnknownAccountEstimate ==
    [][(AccountChecked(last') /\ last'.account_id = 0
          /\ last'.remaining_account <= 0)
       => /\ ReachedMaxAt(login_attempts', last'.form_data, now) # {}
          /\ \A v \in ReachedMaxAt(login_attempts', last'.form_data, now) :
                last'.ban_remaining = BAN_TIME_ACCOUNT - (now - v)
          /\ last'.ban_remaining >= 1
          /\ last'.ban_remaining <= BAN_TIME_ACCOUNT]_vars

\* A check for no account found one attempt more than the maximum, made at
\* three different seconds: the estimate counts from the middle one.
C21_Witness ==
    /\ AccountChecked(last) /\ last.account_id = 0
    /\ last.remaining_account = 0 - 1
    /\ LET mine == {i \in DOMAIN login_attempts :
                      login_attempts[i].field_data = quick_hash(last.form_data)}
       IN  /\ Cardinality(mine) = MAX_LOGIN_ATTEMPTS_ACCOUNT + 1
           /\ \A i, j \in mine :
                 i < j => login_attempts[i].attempt_time < login_attempts[j].attempt_time
           /\ \E i \in mine :
                 /\ login_attempts[i].attempt_time < now
                 /\ last.ban_remaining
                      = BAN_TIME_ACCOUNT - (now - login_attempts[i].attempt_time)

\* Every attempt recorded for the login field is BAN_TIME_ACCOUNT seconds
\* old or older.
AttemptsElapsed(log, field, t) ==
    \A i \in DOMAIN log :
        log[i].field_data = quick_hash(field)
        => log[i].attempt_time <= t - BAN_TIME_ACCOUNT

\* C22: no ban reaches further than BAN_TIME_ACCOUNT seconds ahead; and a
\* login for an identifier whose ban_until (if it has an account) has passed
\* and whose recorded attempts are all BAN_TIME_ACCOUNT seconds old or older
\* finds no ban (ban seconds 0) and no prior failure: the account check
\* counts the call's own attempt alone, the account's row is not written and
\* the status is that of the password check, so a single failed login is
\* not banned (MAX_LOGIN_ATTEMPTS_ACCOUNT > 1).
C22_BanExpires ==
    [][/\ \A a \in AccountIds : accounts'[a].ban_until <= now + BAN_TIME_ACCOUNT
       /\ (/\ AccountChecked(last')
           /\ last'.account_id \in AccountIds
                 => accounts[last'.account_id].ban_until <= now
           /\ AttemptsElapsed(login_attempts, last'.form_data, now))
          => /\ last'.ban_remaining = 0
             /\ last'.remaining_account
                  = MAX_LOGIN_ATTEMPTS_ACCOUNT - (IF last'.account = 0 THEN 1 ELSE 0)
             /\ last'.remaining_account > 0
             /\ last'.status = (IF last'.account = 0 THEN 0 ELSE 1)
             /\ accounts' = accounts]_vars

\* A failed login for an account that was banned once, made after the ban
\* ended and BAN_TIME_ACCOUNT seconds after the attempts that caused it:
\* status 0, no ban, one attempt fewer than the maximum remaining.
C22_Witness ==
    /\ AccountChecked(last) /\ last.account_id \in AccountIds /\ last.account = 0
    /\ last.status = 0 /\ last.ban_remaining = 0
    /\ last.remaining_account = MAX_LOGIN_ATTEMPTS_ACCOUNT - 1
    /\ accounts[last.account_id].ban_count = 1
    /\ accounts[last.account_id].ban_until <= now
    /\ login_attempts[Len(login_attempts)].attempt_time = now
    /\ Cardinality({i \in DOMAIN login_attempts :
            /\ login_attempts[i].field_data = quick_hash(last.form_data)
            /\ login_attempts[i].success = 0
            /\ login_attempts[i].attempt_time <= now - BAN_TIME_ACCOUNT})
         >= MAX_LOGIN_ATTEMPTS_ACCOUNT

-----------------------------------------------------------------------------
(* The claim about logins without ip or login field, checked under         *)
(* CredentialSpec.                                                         *)

\* The step is a login without the ip or without the login field.
LoginUnthrottled(r) == r.op = "login" /\ (r.ip_id = None \/ r.form_data = None)

\* C13: a login without the ip or without the login field leaves the
\* attempt log, every ip's and every account's ban_until and ban_count as
\* they were, returns no warnings, and returns status 1 when the account
\* exists and the password verifies and status 0 otherwise, even for a
\* banned account.
C13_CredentialCheckOnly ==
    [][LoginUnthrottled(last')
       => /\ login_attempts' = login_attempts
          /\ ip_addresses' = ip_addresses
          /\ accounts' = accounts
          /\ last'.warnings = <<>>
          /\ last'.status
               = IF /\ last'.account_id \in AccountIds
                    /\ password_check(last'.password,
                                      accounts[last'.account_id].password)
                 THEN 1 ELSE 0]_vars

\* A login with the right password and the login field but no ip, for an
\* account that is banned: status 1, and the log holds only rows with an ip.
C13_Witness ==
    /\ LoginUnthrottled(last)
    /\ last.ip_id = None /\ last.form_data # None
    /\ last.account_id \in AccountIds
    /\ accounts[last.account_id].ban_until > now
    /\ last.status = 1
    /\ \A i \in DOMAIN login_attempts : login_attempts[i].ip_id # None

-----------------------------------------------------------------------------
(* The claim about concurrent logins, checked under ConcurrentSpec.        *)

\* The row a call inserted.
OwnRow(c) == login_attempts[calls[c].attempt_id]

\* The calls that have returned after a failed attempt on account a, made
\* when the account was not banned, whose rows are inside the window.
FailedCalls(a) ==
    {c \in Calls : /\ calls[c].pc = "done"
                   /\ calls[c].account_id = a
                   /\ calls[c].valid = 0
                   /\ calls[c].ban_until <= OwnRow(c).attempt_time
                   /\ OwnRow(c).attempt_time > now - BAN_TIME_ACCOUNT}

\* No successful attempt for the account's login field was recorded at or
\* after one of these attempts.
NoInterveningSuccess(a) ==
    \A j \in DOMAIN login_attempts :
        (/\ login_attempts[j].field_data = quick_hash(accounts[a].username)
         /\ login_attempts[j].success = 1)
        => \A c \in FailedCalls(a) :
              login_attempts[j].attempt_time < OwnRow(c).attempt_time

\* The account is banned once MAX_LOGIN_ATTEMPTS_ACCOUNT such calls have
\* returned (the last of them within this second).
BannedWhenReturned ==
    \A a \in AccountIds :
        (/\ Cardinality(FailedCalls(a)) >= MAX_LOGIN_ATTEMPTS_ACCOUNT
         /\ \E c \in FailedCalls(a) : OwnRow(c).attempt_time = now
         /\ NoInterveningSuccess(a))
        => accounts[a].ban_until > now

\* The counts a call takes are counts over a log that holds its own row:
\* the ip count always counts it, and the account count counts it when it is
\* a failed attempt and the last successful login the call read is older.
CountsOwnAttempt ==
    \A c \in Calls :
        /\ (calls[c].pc = "count_ip" /\ calls'[c].pc # "count_ip")
             => /\ calls[c].attempt_id \in DOMAIN login_attempts
                /\ OwnRow(c).ip_id = calls[c].ip_id
                /\ OwnRow(c).attempt_time > now - BAN_TIME_IP
                /\ calls'[c].remaining_ip
                     = MAX_LOGIN_ATTEMPTS_IP
                       - WindowCountIp(login_attempts, calls[c].ip_id, now)
                /\ calls'[c].remaining_ip < MAX_LOGIN_ATTEMPTS_IP
        /\ (calls[c].pc = "count" /\ calls'[c].pc # "count"
               /\ calls[c].valid = 0
               /\ calls[c].last_login < OwnRow(c).attempt_time)
             => /\ OwnRow(c).field_data = quick_hash(calls[c].form_data)
                /\ OwnRow(c).attempt_time
                     > Greatest(calls[c].last_login, now - BAN_TIME_ACCOUNT)
                /\ calls'[c].remaining_account < MAX_LOGIN_ATTEMPTS_ACCOUNT
                /\ calls'[c].remaining_account
                     = MAX_LOGIN_ATTEMPTS_ACCOUNT
                       - Cardinality({i \in DOMAIN login_attempts :
                            /\ login_attempts[i].field_data
                                 = quick_hash(calls[c].form_data)
                            /\ login_attempts[i].attempt_time > calls[c].last_login
                            /\ login_attempts[i].attempt_time > now - BAN_TIME_ACCOUNT})

-----------------------------------------------------------------------------
(* The claims about persistent logins, checked under SessionSpec.          *)

StoredTokens(rows) == {s.token : s \in rows}

\* The number of the random seed in a session's identifier, and of the salt
\* in a user's password hash: random values are numbered in the order they
\* are drawn, so a session with a seed number below the salt number of its
\* user's password was issued before that password was set.
SeedNumber(session) == session.identifier[1][2][2]
SaltNumber(usrs, user_id) == usrs[user_id].password[2]
IssuedBeforeChange(usrs, session) ==
    SeedNumber(session) < SaltNumber(usrs, session.user_id)

\* C5: get_session returns None (and changes nothing) when the hash of the
\* supplied token is no stored token; the token a successful get_session was
\* given is no longer stored after it; and a token drawn earlier that is not
\* stored is never stored again, so a pre-rotation token stays rejected.
C5_UnstoredTokenRejected ==
    [][/\ last'.op = "get_session"
            => /\ quick_hash(last'.token) \notin StoredTokens(sessions)
                    => last'.result = None /\ sessions' = sessions
               /\ last'.result # None
                    => quick_hash(last'.token) \notin StoredTokens(sessions')
       /\ \A tk \in Tokens :
            quick_hash(tk) \notin StoredTokens(sessions)
                => quick_hash(tk) \notin StoredTokens(sessions')]_vars

\* A session's original token (drawn just before its seed) is presented
\* with the session's own identifier after a rotation, and is rejected.
C5_Witness ==
    /\ last.op = "get_session"
    /\ last.result = None
    /\ quick_hash(last.token) \notin StoredTokens(sessions)
    /\ \E s \in sessions :
          /\ s.identifier = last.identifier
          /\ last.token = generate_uuid(SeedNumber(s) - 1)

\* C6: get_session for the token of a session issued before its user's
\* current password was set returns None and leaves every row (so every
\* token) as it was, whichever identifier is supplied.
C6_PasswordChangeInvalidates ==
    [][last'.op = "get_session"
       => \A s \in sessions :
            (s.token = quick_hash(last'.token) /\ IssuedBeforeChange(users, s))
            => last'.result = None /\ sessions' = sessions]_vars

\* The current token and the stored identifier of a session issued before
\* the password change were supplied, and the call returned None.
C6_Witness ==
    /\ last.op = "get_session"
    /\ last.result = None
    /\ \E s \in sessions :
          /\ s.token = quick_hash(last.token)
          /\ s.identifier = last.identifier
          /\ IssuedBeforeChange(users, s)

\* C9: get_session with a stored token and another identifier than the
\* stored one, where the stored identifier's second half is the user's
\* current identifier, returns None and deletes every session with that
\* stored identifier, the matched one included.
C9_MismatchInvalidatesSessions ==
    [][last'.op = "get_session"
       => \A s \in sessions :
            (/\ s.token = quick_hash(last'.token)
             /\ s.identifier # last'.identifier
             /\ second_half(s.identifier) = user_identifier(users, s.user_id))
            => /\ last'.result = None
               /\ \A s2 \in sessions : s2.identifier = s.identifier => s2 \notin sessions']_vars

\* C17: get_session with the stored token and the stored identifier of a
\* session whose identifier's second half is its user's current identifier
\* returns the session with a token never drawn before; the session's row
\* keeps its identifier and holds the hash of that token in place of the old
\* one, every other row is as it was, and get_session with the returned
\* token and the same identifier succeeds again.
C17_ValidationRotatesToken ==
    [][last'.op = "get_session"
       => \A s \in sessions :
            (/\ s.token = quick_hash(last'.token)
             /\ s.identifier = last'.identifier
             /\ second_half(s.identifier) = user_identifier(users, s.user_id))
            => /\ last'.result = "session"
               /\ last'.new_token \notin Tokens
               /\ quick_hash(last'.new_token) # s.token
               /\ sessions' = (sessions \ {s})
                     \cup {[s EXCEPT !.token = quick_hash(last'.new_token)]}
               /\ get_session(sessions', users', last'.new_token,
                              last'.identifier, fresh' + 1).result = "session"]_vars

\* Issue, validate, validate: a get_session succeeded with a token that an
\* earlier get_session returned (its number is above the session's seed
\* number; the issued token's is below), and the session's row holds the
\* hash of the token returned now.
C17_Witness ==
    /\ last.op = "get_session"
    /\ last.result = "session"
    /\ \E s \in sessions :
          /\ s.identifier = last.identifier
          /\ last.token[2] > SeedNumber(s)
          /\ s.token = quick_hash(last.new_token)
          /\ second_half(s.identifier) = user_identifier(users, s.user_id)

\* The sessions (named by their identifier, which no call changes) that a
\* step removed.
Deleted(before, after) ==
    {s \in before : \A s2 \in after : s2.identifier # s.identifier}

\* C18: get_session with a stored token and another identifier than the
\* stored one, where the stored identifier's second half is not the user's
\* current identifier, returns None and leaves every row as it was; and a
\* get_session that removes any session was given the token of a session
\* whose identifier's second half is its user's current identifier.
C18_StaleMismatchDeletesNothing ==
    [][last'.op = "get_session"
       => /\ \A s \in sessions :
               (/\ s.token = quick_hash(last'.token)
                /\ s.identifier # last'.identifier
                /\ second_half(s.identifier) # user_identifier(users, s.user_id))
               => last'.result = None /\ sessions' = sessions
          /\ Deleted(sessions, sessions') # {}
               => \E s \in sessions :
                     /\ s.token = quick_hash(last'.token)
                     /\ second_half(s.identifier)
                          = user_identifier(users, s.user_id)]_vars

\* The token of a session issued before its user's password change was
\* presented with another identifier: None, and the session is still stored
\* beside another session.
C18_Witness ==
    /\ last.op = "get_session"
    /\ last.result = None
    /\ Cardinality(sessions) > 1
    /\ \E s \in sessions :
          /\ s.token = quick_hash(last.token)
          /\ s.identifier # last.identifier
          /\ second_half(s.identifier) # user_identifier(users, s.user_id)

====
